---- MODULE Spec2Model ----
(***************************************************************************)
(* Model of random_example.py: the argument parser of the __main__ block   *)
(* and the linear driver run(args).  The collaborators (rlcard.make,       *)
(* set_seed, RandomAgent, env.set_agents, env.run) are not part of the     *)
(* file; they are modelled as an unknown but deterministic library: which  *)
(* call fails is fixed per installation (failAt), and the episode that     *)
(* env.run returns is an unknown function of the two seeds it can see      *)
(* (episodes).  Two process runs of the same command line are modelled     *)
(* next to each other so that reproducibility can be stated.               *)
(***************************************************************************)
EXTENDS Integers, Sequences, FiniteSets, TLC

\* ---------------------------------------------------------------- bounds
MaxSeats == 2
MaxTrajLen == 2

\* ------------------------------------------------------ program constants
ConfigSeed == 42
NumPlayers == 3
GlobalSeed == 42
SampleSeatWrong == 0 + 1
SampleSeat == 0
IsTrainingTrue == TRUE
IsTraining == FALSE

Runs == {1, 2}

ChoicesUnchecked ==
    {"blackjack", "leduc-holdem", "limit-holdem", "doudizhu", "mahjong",
     "no-limit-holdem", "uno", "gin-rummy", "bridge", "hearts"}
Choices ==
    {"blackjack", "leduc-holdem", "limit-holdem", "doudizhu", "mahjong",
     "no-limit-holdem", "uno", "gin-rummy", "bridge"}
Default == "leduc-holdem"

\* what may follow --env on the command line; NoFlag: the flag is absent
NoFlag == "<absent>"
InvalidNames == {"hearts"}
ArgvEnv == {NoFlag} \cup Choices \cup InvalidNames

\* states the interpreter may find the global generators in at start-up
Entropy == {7, 8}

Config == [seed |-> ConfigSeed, num_players |-> NumPlayers]

\* -------------------------------------------------------------- pipeline
PipelineSeedLate ==
    <<"l12", "l24", "l25", "l26", "l29", "l21", "l31", "l32", "l33", "l34",
      "l35", "l36", "l37", "l38">>
PipelineRunFirst ==
    <<"l12", "l21", "l24", "l25", "l29", "l26", "l31", "l32", "l33", "l34",
      "l35", "l36", "l37", "l38">>
Pipeline ==
    <<"l12", "l21", "l24", "l25", "l26", "l29", "l31", "l32", "l33", "l34",
      "l35", "l36", "l37", "l38">>

IndexOf(line) == CHOOSE i \in 1..Len(Pipeline) : Pipeline[i] = line

NextLine(line) ==
    IF IndexOf(line) = Len(Pipeline) THEN "done"
    ELSE Pipeline[IndexOf(line) + 1]

\* an exception is never caught: the process ends where it is raised
RaiseSwallowed(line) == NextLine(line)
RaiseTarget(line) == "crashed"

\* ------------------------------------------------------------ collaborators
FailPoints == {"none", "l12", "l21", "l24", "l25", "l26"}

FullEvent == [raw_obs |-> "obs", raw_legal_actions |-> "legal", action |-> "a"]
EventKinds ==
    {FullEvent,
     [raw_legal_actions |-> "legal", action |-> "a"],
     [raw_obs |-> "obs", action |-> "a"]}

Trajectory(n, first) == [i \in 1..n |-> IF i = 1 THEN first ELSE FullEvent]

Seat0Trajs == {Trajectory(n, e) : n \in 0..MaxTrajLen, e \in EventKinds}
OtherTrajs == {Trajectory(n, FullEvent) : n \in 0..MaxTrajLen}

TrajLists ==
    UNION {{f \in [1..k -> Seat0Trajs \cup OtherTrajs] :
               /\ k > 0 => f[1] \in Seat0Trajs
               /\ \A i \in 2..k : f[i] \in OtherTrajs} : k \in 0..MaxSeats}

Outcomes ==
    {[ok |-> FALSE, trajectories |-> <<>>]}
        \cup {[ok |-> TRUE, trajectories |-> t] : t \in TrajLists}

SetSeedIgnored(old, seed) == old
SetSeed(old, seed) == seed

NumActions(e) == <<"num_actions", e.name>>
RandomAgent(n) == [num_actions |-> n]

\* Python indexing of a list with a non-negative index
Subscriptable(seq, i) == i < Len(seq)
Item(seq, i) == seq[i + 1]

CanSample(t, key) ==
    /\ Subscriptable(t, SampleSeat)
    /\ Subscriptable(Item(t, SampleSeat), 0)
    /\ key \in DOMAIN Item(Item(t, SampleSeat), 0)

SeatLenOfList(t, seat) == Len(t)
SeatLen(t, seat) == Len(Item(t, seat))

\* ------------------------------------------------------------------ state
VARIABLES argv, failAt, episodes, entropy, pc, args, env, rng, agent1, agent2,
          trajectories, ret, bound, out, log, crashAt

vars == <<argv, failAt, episodes, entropy, pc, args, env, rng, agent1, agent2,
          trajectories, ret, bound, out, log, crashAt>>

NoEnv == [name |-> "", config |-> [seed |-> 0, num_players |-> 0], agents |-> <<>>]
NoAgent == [num_actions |-> <<>>]

Init ==
    /\ argv \in ArgvEnv
    /\ failAt \in FailPoints
    /\ episodes = <<>>
    /\ entropy \in [Runs -> Entropy]
    /\ pc = [p \in Runs |-> "l59"]
    /\ args = [p \in Runs |-> [env |-> ""]]
    /\ env = [p \in Runs |-> NoEnv]
    /\ rng = entropy
    /\ agent1 = [p \in Runs |-> NoAgent]
    /\ agent2 = [p \in Runs |-> NoAgent]
    /\ trajectories = [p \in Runs |-> <<>>]
    /\ ret = [p \in Runs |-> <<>>]
    /\ bound = [p \in Runs |-> {}]
    /\ out = [p \in Runs |-> <<>>]
    /\ log = [p \in Runs |-> <<>>]
    /\ crashAt = [p \in Runs |-> "none"]

\* ----------------------------------------------------------------- helpers
Goto(p, line) == pc' = [pc EXCEPT ![p] = line]

Raise(p, line) ==
    /\ pc' = [pc EXCEPT ![p] = RaiseTarget(line)]
    /\ crashAt' = [crashAt EXCEPT ![p] =
                       IF RaiseTarget(line) = "crashed" THEN line ELSE @]

Call(p, fn, arg) == log' = [log EXCEPT ![p] = Append(@, <<fn, arg>>)]

Emit(p, fn, v) ==
    /\ out' = [out EXCEPT ![p] = Append(@, <<fn, v>>)]
    /\ Call(p, fn, v)

\* ----------------------------------------------------------------- actions
\* lines 41-59: the parser accepts a value of --env only from choices and
\* otherwise exits (status 2) inside parse_args
ParseArgs(p) ==
    /\ pc[p] = "l59"
    /\ IF argv = NoFlag \/ argv \in Choices
       THEN /\ args' = [args EXCEPT ![p] =
                           [env |-> IF argv = NoFlag THEN Default ELSE argv]]
            /\ bound' = [bound EXCEPT ![p] = @ \cup {"args"}]
            /\ Goto(p, Pipeline[1])
       ELSE /\ Goto(p, "usage_exit")
            /\ UNCHANGED <<args, bound>>
    /\ UNCHANGED <<argv, failAt, episodes, entropy, env, rng, agent1, agent2,
                   trajectories, ret, out, log, crashAt>>

\* lines 12-18
Make(p) ==
    /\ pc[p] = "l12"
    /\ Call(p, "rlcard.make", Config)
    /\ IF failAt = "l12"
       THEN Raise(p, "l12") /\ UNCHANGED <<env, bound>>
       ELSE /\ env' = [env EXCEPT ![p] =
                          [name |-> args[p].env, config |-> Config,
                           agents |-> <<>>]]
            /\ bound' = [bound EXCEPT ![p] = @ \cup {"env"}]
            /\ Goto(p, NextLine("l12"))
            /\ UNCHANGED crashAt
    /\ UNCHANGED <<argv, failAt, episodes, entropy, args, rng, agent1, agent2,
                   trajectories, ret, out>>

\* line 21
SeedGlobals(p) ==
    /\ pc[p] = "l21"
    /\ Call(p, "set_seed", GlobalSeed)
    /\ IF failAt = "l21"
       THEN Raise(p, "l21") /\ UNCHANGED rng
       ELSE /\ rng' = [rng EXCEPT ![p] = SetSeed(@, GlobalSeed)]
            /\ Goto(p, NextLine("l21"))
            /\ UNCHANGED crashAt
    /\ UNCHANGED <<argv, failAt, episodes, entropy, args, env, agent1, agent2,
                   trajectories, ret, bound, out>>

\* line 24
MakeAgent1(p) ==
    /\ pc[p] = "l24"
    /\ IF "env" \notin bound[p]
       THEN Raise(p, "l24") /\ UNCHANGED <<agent1, bound, log>>
       ELSE /\ Call(p, "RandomAgent", NumActions(env[p]))
            /\ IF failAt = "l24"
               THEN Raise(p, "l24") /\ UNCHANGED <<agent1, bound>>
               ELSE /\ agent1' = [agent1 EXCEPT ![p] =
                                     RandomAgent(NumActions(env[p]))]
                    /\ bound' = [bound EXCEPT ![p] = @ \cup {"agent1"}]
                    /\ Goto(p, NextLine("l24"))
                    /\ UNCHANGED crashAt
    /\ UNCHANGED <<argv, failAt, episodes, entropy, args, env, rng, agent2,
                   trajectories, ret, out>>

\* line 25
MakeAgent2(p) ==
    /\ pc[p] = "l25"
    /\ IF "env" \notin bound[p]
       THEN Raise(p, "l25") /\ UNCHANGED <<agent2, bound, log>>
       ELSE /\ Call(p, "RandomAgent", NumActions(env[p]))
            /\ IF failAt = "l25"
               THEN Raise(p, "l25") /\ UNCHANGED <<agent2, bound>>
               ELSE /\ agent2' = [agent2 EXCEPT ![p] =
                                     RandomAgent(NumActions(env[p]))]
                    /\ bound' = [bound EXCEPT ![p] = @ \cup {"agent2"}]
                    /\ Goto(p, NextLine("l25"))
                    /\ UNCHANGED crashAt
    /\ UNCHANGED <<argv, failAt, episodes, entropy, args, env, rng, agent1,
                   trajectories, ret, out>>

\* line 26
SetAgents(p) ==
    /\ pc[p] = "l26"
    /\ IF ~({"env", "agent1", "agent2"} \subseteq bound[p])
       THEN Raise(p, "l26") /\ UNCHANGED <<env, log>>
       ELSE /\ Call(p, "env.set_agents", <<agent1[p], agent2[p]>>)
            /\ IF failAt = "l26"
               THEN Raise(p, "l26") /\ UNCHANGED env
               ELSE /\ env' = [env EXCEPT ![p].agents =
                                  <<agent1[p], agent2[p]>>]
                    /\ Goto(p, NextLine("l26"))
                    /\ UNCHANGED crashAt
    /\ UNCHANGED <<argv, failAt, episodes, entropy, args, rng, agent1, agent2,
                   trajectories, ret, bound, out>>

\* what the episode can depend on: the environment's own seed and the
\* state of the global generators when the episode starts
Signature(p) == <<env[p].config.seed, rng[p]>>

Known(sig) == \E i \in DOMAIN episodes : episodes[i][1] = sig
Lookup(sig) == (CHOOSE i \in DOMAIN episodes : episodes[i][1] = sig)

\* line 29
EnvRun(p) ==
    /\ pc[p] = "l29"
    /\ IF "env" \notin bound[p]
       THEN /\ Raise(p, "l29")
            /\ UNCHANGED <<episodes, trajectories, ret, bound, log>>
       ELSE /\ Call(p, "env.run", IsTraining)
            /\ \E o \in Outcomes :
                 /\ IF Known(Signature(p))
                    THEN /\ o = episodes[Lookup(Signature(p))][2]
                         /\ UNCHANGED episodes
                    ELSE episodes' = Append(episodes, <<Signature(p), o>>)
                 /\ IF o.ok
                    THEN /\ trajectories' =
                                [trajectories EXCEPT ![p] = o.trajectories]
                         /\ ret' = [ret EXCEPT ![p] = o.trajectories]
                         /\ bound' = [bound EXCEPT ![p] =
                                         @ \cup {"trajectories", "player_wins"}]
                         /\ Goto(p, NextLine("l29"))
                         /\ UNCHANGED crashAt
                    ELSE /\ Raise(p, "l29")
                         /\ UNCHANGED <<trajectories, ret, bound>>
    /\ UNCHANGED <<argv, failAt, entropy, args, env, rng, agent1, agent2, out>>

PrintFrame == <<argv, failAt, episodes, entropy, args, env, rng, agent1,
                agent2, trajectories, ret, bound>>

\* lines 31, 33, 35: a literal header
PrintHeader(p) ==
    /\ pc[p] \in {"l31", "l33", "l35"}
    /\ Emit(p, "print",
            CASE pc[p] = "l31" -> "\nTrajectories:"
              [] pc[p] = "l33" -> "\nSample raw observation:"
              [] pc[p] = "l35" -> "\nSample raw legal_actions:")
    /\ Goto(p, NextLine(pc[p]))
    /\ UNCHANGED crashAt
    /\ UNCHANGED PrintFrame

\* line 32
PrintTrajectories(p) ==
    /\ pc[p] = "l32"
    /\ IF "trajectories" \notin bound[p]
       THEN Raise(p, "l32") /\ UNCHANGED <<out, log>>
       ELSE /\ Emit(p, "print", trajectories[p])
            /\ Goto(p, NextLine("l32"))
            /\ UNCHANGED crashAt
    /\ UNCHANGED PrintFrame

\* lines 34 and 36
PrintSample(p) ==
    /\ pc[p] \in {"l34", "l36"}
    /\ LET key == IF pc[p] = "l34" THEN "raw_obs" ELSE "raw_legal_actions"
       IN  IF "trajectories" \in bound[p] /\ CanSample(trajectories[p], key)
           THEN /\ Emit(p, "pprint.pprint",
                        Item(Item(trajectories[p], SampleSeat), 0)[key])
                /\ Goto(p, NextLine(pc[p]))
                /\ UNCHANGED crashAt
           ELSE Raise(p, pc[p]) /\ UNCHANGED <<out, log>>
    /\ UNCHANGED PrintFrame

\* lines 37 and 38
PrintLen(p) ==
    /\ pc[p] \in {"l37", "l38"}
    /\ LET seat == IF pc[p] = "l37" THEN 0 ELSE 1
       IN  IF "trajectories" \in bound[p]
               /\ Subscriptable(trajectories[p], seat)
           THEN /\ Emit(p, "print", SeatLen(trajectories[p], seat))
                /\ Goto(p, NextLine(pc[p]))
                /\ UNCHANGED crashAt
           ELSE Raise(p, pc[p]) /\ UNCHANGED <<out, log>>
    /\ UNCHANGED PrintFrame

Next ==
    \E p \in Runs :
        \/ ParseArgs(p)
        \/ Make(p)
        \/ SeedGlobals(p)
        \/ MakeAgent1(p)
        \/ MakeAgent2(p)
        \/ SetAgents(p)
        \/ EnvRun(p)
        \/ PrintHeader(p)
        \/ PrintTrajectories(p)
        \/ PrintSample(p)
        \/ PrintLen(p)

Spec == Init /\ [][Next]_vars

\* ------------------------------------------------------------- properties
Terminal == {"done", "usage_exit", "crashed"}

Fns(p) == [i \in DOMAIN log[p] |-> log[p][i][1]]

IsPrefix(s, t) == Len(s) <= Len(t) /\ \A i \in 1..Len(s) : s[i] = t[i]

Calls(p, fn) == {i \in DOMAIN log[p] : log[p][i][1] = fn}

ExpectedCalls ==
    <<"rlcard.make", "set_seed", "RandomAgent", "RandomAgent",
      "env.set_agents", "env.run", "print", "print", "print", "pprint.pprint",
      "print", "pprint.pprint", "print", "print">>

NineNames ==
    {"blackjack", "leduc-holdem", "limit-holdem", "doudizhu", "mahjong",
     "no-limit-holdem", "uno", "gin-rummy", "bridge"}

\* C1: with an --env value outside the nine choices the process ends inside
\* parse_args: no collaborator is ever called, nothing is bound and nothing
\* is printed.
C1_InvalidEnvStopsInParser ==
    \A p \in Runs :
        (argv # NoFlag /\ argv \notin NineNames) =>
            /\ pc[p] \in {"l59", "usage_exit"}
            /\ log[p] = <<>>
            /\ out[p] = <<>>
            /\ bound[p] = {}

C1_Witness ==
    \E p \in Runs : argv \in InvalidNames /\ pc[p] = "usage_exit"

\* C2: once set_agents has bound the agents, their number is 2 and equals
\* the 'num_players' value the environment was constructed with.
C2_PlayersMatchConfig ==
    \A p \in Runs :
        env[p].agents # <<>> =>
            /\ Len(env[p].agents) = 2
            /\ Len(env[p].agents) = env[p].config.num_players

\* C3: the calls of a run are a prefix of the one fixed order make, set_seed,
\* agent, agent, set_agents, run, prints; a run that exits normally has made
\* all of them, each once.
C3_LinearPipeline ==
    \A p \in Runs :
        /\ IsPrefix(Fns(p), ExpectedCalls)
        /\ pc[p] = "done" => Fns(p) = ExpectedCalls

C3_Witness ==
    \E p \in Runs : pc[p] = "done" /\ Len(log[p]) = Len(ExpectedCalls)

C6_OneEvaluationEpisode ==
    \A p \in Runs :
        /\ Cardinality(Calls(p, "env.run")) <= 1
        /\ \A i \in Calls(p, "env.run") :
               /\ log[p][i][2] = FALSE
               /\ \E j \in Calls(p, "env.set_agents") : j < i
               /\ Len(env[p].agents) = 2
        /\ pc[p] = "done" => Cardinality(Calls(p, "env.run")) = 1

C6_Witness ==
    \E p \in Runs : Calls(p, "env.run") # {} /\ pc[p] = "l31"

\* C7 (as stated): the global generators are seeded once and before every
\* other step, the construction of the environment included.
C7_SeededBeforeEveryStep ==
    \A p \in Runs :
        /\ Cardinality(Calls(p, "set_seed")) <= 1
        /\ log[p] # <<>> => log[p][1][1] = "set_seed"

\* C7 (amended): the global generators are seeded at most once, after
\* rlcard.make has returned and before any agent is constructed, the agents
\* are bound or the episode is run; from then on they hold the fixed seed.
C7_SeededOnceAfterMake ==
    \A p \in Runs :
        /\ Cardinality(Calls(p, "set_seed")) <= 1
        /\ \A i \in Calls(p, "set_seed") :
               \E j \in Calls(p, "rlcard.make") : j < i
        /\ \A i \in DOMAIN log[p] :
               log[p][i][1] \in {"RandomAgent", "env.set_agents", "env.run"} =>
                   /\ \E j \in Calls(p, "set_seed") : j < i
                   /\ rng[p] = 42

C7_Witness ==
    \E p \in Runs :
        /\ pc[p] = "l24"
        /\ Calls(p, "set_seed") # {}
        /\ rng[p] # entropy[p]

\* C8: the seventh and eighth printed items are the lengths of the seat-0
\* and the seat-1 trajectory that env.run returned, and the local list is
\* still what env.run returned.
C8_PrintedLengths ==
    \A p \in Runs :
        /\ "trajectories" \in bound[p] => trajectories[p] = ret[p]
        /\ Len(out[p]) >= 7 => out[p][7] = <<"print", Len(ret[p][1])>>
        /\ Len(out[p]) >= 8 => out[p][8] = <<"print", Len(ret[p][2])>>

C8_Witness ==
    \E p \in Runs :
        /\ pc[p] = "done"
        /\ Len(out[p]) = 8
        /\ Len(ret[p][1]) # Len(ret[p][2])

\* position in the call order of the collaborator call made at a line
CallIndex(line) ==
    CASE line = "l12" -> 1
      [] line = "l21" -> 2
      [] line = "l24" -> 3
      [] line = "l25" -> 4
      [] line = "l26" -> 5
      [] line = "l29" -> 6

\* C9: a collaborator call that fails is the last thing the run does: the
\* run is dead at that line, nothing is called after it, and nothing is
\* printed unless env.run has returned.
C9_FailureEndsTheRun ==
    \A p \in Runs :
        /\ (failAt # "none" /\ Len(log[p]) >= CallIndex(failAt)) =>
               /\ pc[p] = "crashed"
               /\ crashAt[p] = failAt
               /\ Len(log[p]) = CallIndex(failAt)
        /\ (Len(log[p]) >= CallIndex("l29") /\ "trajectories" \notin bound[p]) =>
               /\ pc[p] = "crashed"
               /\ crashAt[p] = "l29"
               /\ Len(log[p]) = CallIndex("l29")
        /\ out[p] # <<>> => "trajectories" \in bound[p]

C9_Witness ==
    /\ \E p \in Runs : pc[p] = "crashed" /\ crashAt[p] = "l29"
    /\ \E p \in Runs : pc[p] = "crashed" /\ out[p] = <<>> /\ Len(log[p]) = 6

\* C10: a run exits normally only if env.run returned at least two seats and
\* a non-empty seat-0 trajectory whose first event has 'raw_obs' and
\* 'raw_legal_actions'; with an empty seat-0 trajectory the run gets no
\* further than line 34, where it dies having printed the header, the whole
\* trajectories and the second header, and no length.
C10_PrintPrecondition ==
    \A p \in Runs :
        /\ pc[p] = "done" =>
               /\ Len(ret[p]) >= 2
               /\ Len(ret[p][1]) >= 1
               /\ {"raw_obs", "raw_legal_actions"} \subseteq DOMAIN ret[p][1][1]
        /\ ("trajectories" \in bound[p] /\ Len(ret[p]) >= 1 /\ ret[p][1] = <<>>) =>
               /\ pc[p] \in {"l31", "l32", "l33", "l34", "crashed"}
               /\ Len(out[p]) <= 3
               /\ pc[p] = "crashed" =>
                      /\ crashAt[p] = "l34"
                      /\ Len(out[p]) = 3
                      /\ out[p][2] = <<"print", ret[p]>>

C10_Witness ==
    \E p \in Runs :
        /\ pc[p] = "crashed"
        /\ crashAt[p] = "l34"
        /\ Len(ret[p]) = 2
        /\ ret[p][1] = <<>>
        /\ ret[p][2] # <<>>

====
